---------------------------- MODULE Spec2Model ----------------------------
(***************************************************************************)
(* Model of src/core.py (YouTubeMetaGenerator): the response parser        *)
(* parse_groq_response, the retry loop generate_metadata_with_backoff, the *)
(* caption normalizer parse_vtt_content, extract_video_id, process_video   *)
(* and process_csv_batch.                                                  *)
(*                                                                         *)
(* Text is modelled as a sequence of one-character strings, so that the    *)
(* Python string operations (strip, upper, split, slicing, startswith,     *)
(* the `in` test, join, replace) are computed character by character.      *)
(***************************************************************************)
EXTENDS Integers, Sequences, FiniteSets, TLC

----------------------------------------------------------------------------
(* Python str primitives                                                   *)

\* The absent result (Python None); every other result is a record without this field.
None == [none |-> TRUE]

\* An absent text (Python None where a str is expected: a completion text, a
\* video ID, a transcript): no text equals it, since a text holds
\* one-character strings only.
NoContent == <<"None">>

\* Characters that str.strip() with no argument removes.
Whitespace == {" ", "\n", "\t"}

\* str.upper() on one character (identity outside a-z).
UpperChar(c) ==
    CASE c = "a" -> "A" [] c = "b" -> "B" [] c = "c" -> "C" [] c = "d" -> "D"
      [] c = "e" -> "E" [] c = "i" -> "I" [] c = "l" -> "L" [] c = "m" -> "M"
      [] c = "n" -> "N" [] c = "o" -> "O" [] c = "p" -> "P" [] c = "r" -> "R"
      [] c = "s" -> "S" [] c = "t" -> "T" [] c = "x" -> "X" [] c = "y" -> "Y"
      [] OTHER -> c

\* str.lower() on one character (identity outside A-Z).
LowerChar(c) ==
    CASE c = "A" -> "a" [] c = "B" -> "b" [] c = "C" -> "c" [] c = "D" -> "d"
      [] c = "E" -> "e" [] c = "I" -> "i" [] c = "L" -> "l" [] c = "M" -> "m"
      [] c = "N" -> "n" [] c = "O" -> "o" [] c = "P" -> "p" [] c = "R" -> "r"
      [] c = "S" -> "s" [] c = "T" -> "t" [] c = "X" -> "x" [] c = "Y" -> "y"
      [] OTHER -> c

\* s.upper()
Upper(s) == [i \in 1..Len(s) |-> UpperChar(s[i])]

\* s.lower()
Lower(s) == [i \in 1..Len(s) |-> LowerChar(s[i])]

\* s[n:]  (n a 0-based Python index, n >= 0)
From(s, n) == SubSeq(s, n + 1, Len(s))

\* s[:n]
Upto(s, n) == SubSeq(s, 1, IF n < Len(s) THEN n ELSE Len(s))

\* s.startswith(p)
StartsWith(s, p) == Len(s) >= Len(p) /\ SubSeq(s, 1, Len(p)) = p

\* s.endswith(p)
EndsWith(s, p) == Len(s) >= Len(p) /\ SubSeq(s, Len(s) - Len(p) + 1, Len(s)) = p

\* Index of the first character of s at or after i that is not in cs (Len(s)+1 if none).
RECURSIVE SkipFwd(_, _, _)
SkipFwd(s, i, cs) ==
    IF i > Len(s) \/ s[i] \notin cs THEN i ELSE SkipFwd(s, i + 1, cs)

\* Index of the last character of s at or before j that is not in cs (0 if none).
RECURSIVE SkipBack(_, _, _)
SkipBack(s, j, cs) ==
    IF j < 1 \/ s[j] \notin cs THEN j ELSE SkipBack(s, j - 1, cs)

\* s.strip(chars): remove leading and trailing characters that are in cs.
StripChars(s, cs) ==
    LET a == SkipFwd(s, 1, cs)
        b == SkipBack(s, Len(s), cs)
    IN  IF a > b THEN <<>> ELSE SubSeq(s, a, b)

\* s.strip()
Strip(s) == StripChars(s, Whitespace)

\* Index of the first occurrence of the non-empty p in s at or after i (0 if none).
RECURSIVE Find(_, _, _)
Find(s, p, i) ==
    IF i + Len(p) - 1 > Len(s) THEN 0
    ELSE IF s[i] = p[1] /\ SubSeq(s, i, i + Len(p) - 1) = p THEN i
    ELSE Find(s, p, i + 1)

\* p in s  (p non-empty)
Contains(s, p) == Find(s, p, 1) # 0

\* s.split(sep) for a non-empty separator: left to right, non-overlapping.
RECURSIVE Split(_, _)
Split(s, sep) ==
    LET k == Find(s, sep, 1)
    IN  IF k = 0 THEN <<s>>
        ELSE <<SubSeq(s, 1, k - 1)>> \o Split(From(s, k - 1 + Len(sep)), sep)

\* sep.join(parts)
RECURSIVE Join(_, _)
Join(parts, sep) ==
    IF Len(parts) = 0 THEN <<>>
    ELSE IF Len(parts) = 1 THEN parts[1]
    ELSE parts[1] \o sep \o Join(Tail(parts), sep)

\* s.replace(a, b) for single characters a, b.
Replace(s, a, b) == [i \in 1..Len(s) |-> IF s[i] = a THEN b ELSE s[i]]

\* [f(x) for x in parts if x]: the non-empty elements of parts, in order.
RECURSIVE NonEmpty(_)
NonEmpty(parts) ==
    IF Len(parts) = 0 THEN <<>>
    ELSE IF Head(parts) = <<>> THEN NonEmpty(Tail(parts))
    ELSE <<Head(parts)>> \o NonEmpty(Tail(parts))

\* [line.strip() for line in parts]
StripAll(parts) == [i \in 1..Len(parts) |-> Strip(parts[i])]

----------------------------------------------------------------------------
(* Literals of parse_groq_response                                         *)

NL == <<"\n">>
SP == <<" ">>
DQ == "\""
SQ == "'"
STAR == "*"
TITLE_LABEL == <<"T", "I", "T", "L", "E", ":">>
DESCRIPTION_LABEL == <<"D", "E", "S", "C", "R", "I", "P", "T", "I", "O", "N", ":">>
BOLD_Title == <<"*", "*", "T", "i", "t", "l", "e", ":", "*", "*">>
BOLD_TITLE == <<"*", "*", "T", "I", "T", "L", "E", ":", "*", "*">>
BOLD_DESCRIPTION == <<"*", "*", "D", "E", "S", "C", "R", "I", "P", "T", "I", "O", "N", ":", "*", "*">>
BOLD == <<"*", "*">>
ELLIPSIS == <<".", ".", ".">>
SENTENCE_SEP == <<".", " ">>

\* Length of the label 'TITLE:' (line[6:]).
TitleLabelLen == 6
\* Length of the label 'DESCRIPTION:' (line[12:]).
DescLabelLen == 12
\* Title character limit.
TitleLimit == 53
\* Characters kept of an over-long title before the ellipsis.
TitleKeep == 50

----------------------------------------------------------------------------
(* parse_groq_response                                                     *)

\* One iteration of the `for line in lines` loop of pattern 1, on scan state
\* st = [title, description_lines, collecting_description].
ScanLine(st, raw) ==
    LET line == Strip(raw)
    IN  IF line = <<>> THEN st
        ELSE IF StartsWith(Upper(line), TITLE_LABEL)
        THEN [st EXCEPT !.title =
                 StripChars(StripChars(Strip(From(line, TitleLabelLen)), {DQ}), {SQ})]
        ELSE IF StartsWith(Upper(line), DESCRIPTION_LABEL)
        THEN LET desc_part == Strip(From(line, DescLabelLen))
             IN  [st EXCEPT !.collecting_description = TRUE,
                            !.description_lines =
                                IF desc_part # <<>> THEN Append(@, desc_part) ELSE @]
        ELSE IF st.collecting_description
        THEN [st EXCEPT !.description_lines = Append(@, line)]
        ELSE st

\* Pattern 1 (TITLE: format): the loop over all lines, from line i on.
RECURSIVE ScanLines(_, _, _)
ScanLines(lines, i, st) ==
    IF i > Len(lines) THEN st
    ELSE ScanLines(lines, i + 1, ScanLine(st, lines[i]))

\* Group 1 of re.search(marker + r'\s*([^stop]+)', text, re.IGNORECASE), where
\* marker is given in upper case and stop is the excluded character; <<"nomatch">>
\* when the search fails. The search tries marker positions left to right; at
\* each, \s* is greedy and gives characters back until the group can start.
RECURSIVE ReGroupFrom(_, _, _, _)
ReGroupFrom(text, marker, stop, from) ==
    LET p == Find(Upper(text), marker, from)
        q == p + Len(marker)
        e == SkipFwd(text, q, Whitespace)
        \* start of the group: the largest k in q..e with text[k] not a stop
        starts == {k \in q..e : k <= Len(text) /\ text[k] # stop}
        k0 == CHOOSE k \in starts : \A j \in starts : j <= k
        end == Find(text, <<stop>>, k0)
    IN  IF p = 0 THEN <<"nomatch">>
        ELSE IF starts = {} THEN ReGroupFrom(text, marker, stop, p + 1)
        ELSE <<"match", SubSeq(text, k0, IF end = 0 THEN Len(text) ELSE end - 1)>>

\* Pattern 2 (**Title:** format).
BoldPattern(full_text) ==
    LET title_match == ReGroupFrom(full_text, BOLD_TITLE, "\n", 1)
        desc_match == ReGroupFrom(full_text, BOLD_DESCRIPTION, STAR, 1)
    IN  [title |-> IF title_match[1] = "match" THEN Strip(title_match[2]) ELSE <<>>,
         description_lines |->
             IF desc_match[1] = "match" THEN <<Strip(desc_match[2])>> ELSE <<>>,
         collecting_description |-> FALSE]

\* Pattern 3 (first line as title).
FirstLinePattern(lines) ==
    LET first_line == IF Len(lines) > 0 THEN Strip(lines[1]) ELSE <<>>
        rest == NonEmpty(StripAll(Tail(lines)))
    IN  IF StartsWith(first_line, BOLD) /\ EndsWith(first_line, BOLD)
        THEN [title |-> Strip(StripChars(first_line, {STAR})),
              description_lines |-> rest, collecting_description |-> FALSE]
        ELSE IF Len(first_line) <= TitleLimit
        THEN [title |-> first_line,
              description_lines |-> rest, collecting_description |-> FALSE]
        ELSE [title |-> <<>>, description_lines |-> <<>>,
              collecting_description |-> FALSE]

\* The if / elif / else that selects the pattern.
SelectPattern(full_text, lines) ==
    IF Contains(Upper(full_text), TITLE_LABEL)
    THEN ScanLines(lines, 1,
             [title |-> <<>>, description_lines |-> <<>>,
              collecting_description |-> FALSE])
    ELSE IF Contains(full_text, BOLD_Title) \/ Contains(full_text, BOLD_TITLE)
    THEN BoldPattern(full_text)
    ELSE FirstLinePattern(lines)

\* Variant of CleanTitle: the emphasis characters are left in place.
CleanTitle_NoEmphasis(title) ==
    Strip(StripChars(StripChars(title, {DQ}), {SQ}))

\* "Clean up title": strip quotes, emphasis and blanks.
CleanTitle(title) ==
    Strip(StripChars(StripChars(StripChars(title, {DQ}), {SQ}), {STAR}))

\* Variant of LimitTitle: the comparison is off by one.
LimitTitle_OffByOne(title) ==
    IF Len(title) > TitleLimit + 1 THEN Upto(title, TitleKeep) \o ELLIPSIS ELSE title

\* Variant of LimitTitle: the whole limit is kept before the ellipsis.
LimitTitle_KeepsLimit(title) ==
    IF Len(title) > TitleLimit THEN Upto(title, TitleLimit) \o ELLIPSIS ELSE title

\* "Ensure title is within character limit".
LimitTitle(title) ==
    IF Len(title) > TitleLimit THEN Upto(title, TitleKeep) \o ELLIPSIS ELSE title

\* "If no clear separation, try to split the content intelligently",
\* on td = [title, description].
SentenceFallback(td, full_text) ==
    IF td.title # <<>> /\ td.description # <<>> THEN td
    ELSE LET sentences == Split(Replace(full_text, "\n", " "), SENTENCE_SEP)
             potential_title == Strip(sentences[1])
         IN  IF Len(potential_title) <= TitleLimit /\ td.title = <<>>
             THEN [title |-> potential_title,
                   description |-> Strip(Join(Tail(sentences), SENTENCE_SEP))]
             ELSE IF td.description = <<>>
             THEN [td EXCEPT !.description = Strip(full_text)]
             ELSE td

\* "Final validation".
Validate(td) ==
    IF td.title # <<>> /\ td.description # <<>> THEN td ELSE None

\* parse_groq_response(content): the record {title, description}, or None.
parse_groq_response(content) ==
    LET lines == Split(Strip(content), NL)
        full_text == Strip(content)
        found == SelectPattern(full_text, lines)
        description == Strip(Join(found.description_lines, SP))
        title == LimitTitle(CleanTitle(found.title))
    IN  Validate(SentenceFallback([title |-> title, description |-> description],
                                  full_text))

----------------------------------------------------------------------------
(* generate_metadata_with_backoff: classification of a failure             *)

CODE_429 == <<"4", "2", "9">>
RATE_LIMIT == <<"r", "a", "t", "e", " ", "l", "i", "m", "i", "t">>

\* "429" in error_msg or "rate limit" in error_msg.lower()
IsRateLimit(error_msg) ==
    Contains(error_msg, CODE_429) \/ Contains(Lower(error_msg), RATE_LIMIT)

\* wait_time = (2 ** attempt) * 2
BackoffBase == 2
\* time.sleep(1)
BriefPause == 1

\* Variant of WaitTime: the doubling factor is forgotten.
WaitTime_NoDouble(a) == BackoffBase ^ a

\* Exponential backoff delay of the rate-limit branch.
WaitTime(a) == (BackoffBase ^ a) * 2

----------------------------------------------------------------------------
(* Bounds and inputs                                                       *)

\* Largest max_retries argument explored.
MaxRetriesBound == 4
\* How far beyond the title limit the long texts of the input family reach.
MaxOver == 1

\* A run of n filler letters.
Fill(n) == [i \in 1..n |-> "x"]

\* Completion texts the service can answer with in the retry loop
\* (<<>> is the empty completion; NoContent an absent one).
Contents ==
    { NoContent,
      <<>>,
      TITLE_LABEL,
      TITLE_LABEL \o <<" ", "a", "\n">> \o DESCRIPTION_LABEL \o <<" ", "b">>,
      <<"*", "*", "b", "*", "*", "\n", "a", ".", " ", "a">> }

\* Messages str(e) of exceptions the service call can raise.
ErrorMessages ==
    { CODE_429,
      <<"x", "4", "2", "9", "x">>,
      <<"R", "a", "t", "e", " ", "L", "i", "m", "i", "t">>,
      <<"5", "0", "0">>,
      <<"r", "a", "t", "e">>,
      <<>> }

\* Surrounding markup of a text in the input family.
Wraps == {"plain", "dq", "sq", "star", "bold", "dq_star", "star_dq"}

Wrap(w, body) ==
    CASE w = "plain"   -> body
      [] w = "dq"      -> <<DQ>> \o body \o <<DQ>>
      [] w = "sq"      -> <<SQ>> \o body \o <<SQ>>
      [] w = "star"    -> <<STAR>> \o body \o <<STAR>>
      [] w = "bold"    -> BOLD \o body \o BOLD
      [] w = "dq_star" -> <<DQ, STAR>> \o body \o <<STAR, DQ>>
      [] w = "star_dq" -> <<STAR, DQ>> \o body \o <<DQ, STAR>>

\* Short texts, and texts whose length is around the title limit
\* (the longest wrap adds 4 characters).
ShortBodies == { <<>>, <<"a">>, <<"a", ".", " ", "b">> }
LongBodies ==
    { Fill(n) : n \in (TitleLimit - 4)..(TitleLimit + MaxOver) }
        \cup { <<"a", ".", " ">> \o Fill(TitleLimit) }

Title_mixed == <<"T", "i", "t", "l", "e", ":">>
Description_mixed == <<"D", "e", "s", "c", "r", "i", "p", "t", "i", "o", "n", ":">>
BOLD_Description == <<"*", "*", "D", "e", "s", "c", "r", "i", "p", "t", "i", "o", "n", ":", "*", "*">>

\* A line of the input family: an optional label, then a wrapped text.
Line(label, w, body) == [label |-> label, wrap |-> w, body |-> body]

FirstLines ==
    { Line(l, w, b) : l \in {<<>>, TITLE_LABEL, Title_mixed, BOLD_Title, DESCRIPTION_LABEL},
                      w \in Wraps, b \in ShortBodies \cup LongBodies }
SecondLines ==
    { Line(l, "plain", b) :
          l \in {<<>>, DESCRIPTION_LABEL, Description_mixed, BOLD_Description, TITLE_LABEL},
          b \in ShortBodies }
ThirdLines ==
    { Line(l, "plain", <<"b">>) : l \in {<<>>, TITLE_LABEL, DESCRIPTION_LABEL} }

\* Documents of one, two or three lines.
Docs ==
    { <<a>> : a \in FirstLines }
        \cup { <<a, b>> : a \in FirstLines, b \in SecondLines }
        \cup { <<a, b, c>> : a \in FirstLines, b \in SecondLines, c \in ThirdLines }

\* The text of a line after its label.
TextOf(line) == Wrap(line.wrap, line.body)

\* The characters of a line: label, one blank, text.
RenderLine(line) ==
    IF line.label = <<>> THEN TextOf(line) ELSE line.label \o SP \o TextOf(line)

\* The characters of a document: its lines joined by newlines.
Render(d) == Join([i \in 1..Len(d) |-> RenderLine(d[i])], NL)

----------------------------------------------------------------------------
(* State                                                                   *)

VARIABLES
    gpc,          \* position in generate_metadata_with_backoff: "off", "loop", "returned"
    max_retries,  \* its max_retries argument
    attempt,      \* the loop variable
    events,       \* service calls and sleeps so far, in order
    gresult,      \* its return value
    ppc,          \* position of a parse_groq_response call: "off", "input", "parsed"
    doc,          \* the lines the completion text was built from
    content,      \* the completion text given to the parser
    parsed,       \* the parser's return value
    reparsed,     \* the parser's return value on the re-rendered record
    vpc,          \* position of a parse_vtt_content call: "off", "input", "parsed"
    vtt_content,  \* the caption document given to parse_vtt_content
    transcript_parts, \* its list of retained cleaned lines
    transcript,   \* its return value
    upc,          \* position of an extract_video_id call: "off", "input", "returned"
    url,          \* its argument
    video_id,     \* its return value
    self,         \* the instance fields of the generator
    inv,          \* the process_video invocations on the instance: position and locals
    files,        \* the files written by save_metadata
    bpc,          \* position in process_csv_batch: "off", "loop", "done"
    rows,         \* the url cells of the rows of the CSV file
    row,          \* index of the next row
    blog          \* the videos processed and the pauses made by the batch, in order

vars == <<gpc, max_retries, attempt, events, gresult, ppc, doc, content, parsed, reparsed,
          vpc, vtt_content, transcript_parts, transcript, upc, url, video_id,
          self, inv, files, bpc, rows, row, blog>>
gvars == <<gpc, max_retries, attempt, events, gresult>>
pvars == <<ppc, doc, content, parsed, reparsed>>
vttvars == <<vpc, vtt_content, transcript_parts, transcript>>
\* The variables of the functions other than the parser and the retry loop.
urlvars == <<upc, url, video_id>>
videovars == <<self, inv, files>>
batchvars == <<bpc, rows, row, blog>>
xvars == <<vttvars, urlvars, videovars, batchvars>>

\* Bound: the number of process_video invocations on the one instance.
NumInvocations == 2
Invocations == 1..NumInvocations

\* The instance fields after __init__.
Constructed == [groq_api_key |-> "key", groq_client |-> "client"]

\* The locals of an invocation that has not started.
IdleInvocation ==
    [pc |-> "idle", url |-> <<>>, video_id |-> NoContent, fetched |-> NoContent,
     transcript |-> NoContent, sent |-> NoContent, metadata |-> None,
     save_ok |-> FALSE, result |-> None, trace |-> <<>>]

\* No call of the function is in progress.
IdleVtt == vpc = "off" /\ vtt_content = <<>> /\ transcript_parts = <<>> /\ transcript = <<>>
IdleUrl == upc = "off" /\ url = <<>> /\ video_id = NoContent
IdleVideo == self = Constructed /\ inv = [i \in Invocations |-> IdleInvocation] /\ files = {}
IdleBatch == bpc = "off" /\ rows = <<>> /\ row = 1 /\ blog = <<>>
IdleOthers == IdleVtt /\ IdleUrl /\ IdleVideo /\ IdleBatch

----------------------------------------------------------------------------
(* parse_groq_response applied to the input family                         *)

InitParse ==
    /\ gpc = "off" /\ max_retries = 0 /\ attempt = 0 /\ events = <<>> /\ gresult = None
    /\ ppc = "input"
    /\ doc \in Docs
    /\ content = Render(doc)
    /\ parsed = None
    /\ reparsed = None
    /\ IdleOthers

\* The call parse_groq_response(content).
Parse ==
    /\ ppc = "input"
    /\ parsed' = parse_groq_response(content)
    /\ ppc' = "parsed"
    /\ UNCHANGED <<doc, content, reparsed, gvars, xvars>>

\* A returned record written in the labeled-line form
\* 'TITLE: <title>' / 'DESCRIPTION: <description>'.
RenderRecord(r) ==
    TITLE_LABEL \o SP \o r.title \o NL \o DESCRIPTION_LABEL \o SP \o r.description

\* The call parse_groq_response on the re-rendered result of the first call.
Reparse ==
    /\ ppc = "parsed" /\ parsed # None
    /\ reparsed' = parse_groq_response(RenderRecord(parsed))
    /\ ppc' = "reparsed"
    /\ UNCHANGED <<doc, content, parsed, gvars, xvars>>

NextParse == Parse \/ Reparse

SpecParse == InitParse /\ [][NextParse]_vars

----------------------------------------------------------------------------
(* generate_metadata_with_backoff                                          *)

\* A completion-service call that answered with text c (or None).
CallOk(a, c) ==
    [op |-> "call", attempt |-> a, kind |-> "content", text |-> c, seconds |-> 0]
\* A completion-service call that raised an exception with message m.
CallErr(a, m) ==
    [op |-> "call", attempt |-> a, kind |-> "error", text |-> m, seconds |-> 0]
\* A time.sleep(n).
Slept(a, n) ==
    [op |-> "sleep", attempt |-> a, kind |-> "sleep", text |-> <<>>, seconds |-> n]

\* "if content: metadata = self.parse_groq_response(content) else: metadata = None"
Metadata(c) == IF c = NoContent \/ c = <<>> THEN None ELSE parse_groq_response(c)

InitGen ==
    /\ gpc = "loop"
    /\ max_retries \in 0..MaxRetriesBound
    /\ attempt = 0
    /\ events = <<>>
    /\ gresult = None
    /\ ppc = "off" /\ doc = <<>> /\ content = <<>> /\ parsed = None /\ reparsed = None
    /\ IdleOthers

\* Variant of AttemptParsed: the metadata is kept but the loop goes on.
AttemptParsed_Continues(c) ==
    /\ gpc = "loop" /\ attempt < max_retries
    /\ Metadata(c) # None
    /\ events' = Append(events, CallOk(attempt, c))
    /\ gresult' = Metadata(c)
    /\ attempt' = attempt + 1
    /\ UNCHANGED <<gpc, max_retries, pvars, xvars>>

\* An attempt whose completion parses: return the metadata.
AttemptParsed(c) ==
    /\ gpc = "loop" /\ attempt < max_retries
    /\ Metadata(c) # None
    /\ events' = Append(events, CallOk(attempt, c))
    /\ gresult' = Metadata(c)
    /\ gpc' = "returned"
    /\ UNCHANGED <<max_retries, attempt, pvars, xvars>>

\* Variant of AttemptUnparsed: the loop bound is off by one.
AttemptUnparsed_OffByOne(c) ==
    /\ gpc = "loop" /\ attempt <= max_retries
    /\ Metadata(c) = None
    /\ events' = Append(events, CallOk(attempt, c))
    /\ attempt' = attempt + 1
    /\ UNCHANGED <<gpc, max_retries, gresult, pvars, xvars>>

\* Variant of AttemptUnparsed: a pause before the next attempt.
AttemptUnparsed_Sleeps(c) ==
    /\ gpc = "loop" /\ attempt < max_retries
    /\ Metadata(c) = None
    /\ events' = events \o <<CallOk(attempt, c), Slept(attempt, BriefPause)>>
    /\ attempt' = attempt + 1
    /\ UNCHANGED <<gpc, max_retries, gresult, pvars, xvars>>

\* An attempt whose completion does not parse: log a warning, next iteration.
AttemptUnparsed(c) ==
    /\ gpc = "loop" /\ attempt < max_retries
    /\ Metadata(c) = None
    /\ events' = Append(events, CallOk(attempt, c))
    /\ attempt' = attempt + 1
    /\ UNCHANGED <<gpc, max_retries, gresult, pvars, xvars>>

\* Variant of AttemptRateLimited: it backs off after the final attempt too.
AttemptRateLimited_SleepsAtEnd(m) ==
    /\ gpc = "loop" /\ attempt < max_retries
    /\ IsRateLimit(m)
    /\ events' = events \o <<CallErr(attempt, m), Slept(attempt, WaitTime(attempt))>>
    /\ attempt' = attempt + 1
    /\ UNCHANGED <<gpc, gresult, max_retries, pvars, xvars>>

\* An attempt that raises a rate-limit error: back off and continue, or return None.
AttemptRateLimited(m) ==
    /\ gpc = "loop" /\ attempt < max_retries
    /\ IsRateLimit(m)
    /\ IF attempt < max_retries - 1
       THEN /\ events' = events \o <<CallErr(attempt, m), Slept(attempt, WaitTime(attempt))>>
            /\ attempt' = attempt + 1
            /\ UNCHANGED <<gpc, gresult>>
       ELSE /\ events' = Append(events, CallErr(attempt, m))
            /\ gresult' = None
            /\ gpc' = "returned"
            /\ UNCHANGED attempt
    /\ UNCHANGED <<max_retries, pvars, xvars>>

\* Variant of AttemptFailed: on the final attempt the exception is re-raised.
AttemptFailed_Raises(m) ==
    /\ gpc = "loop" /\ attempt < max_retries
    /\ ~IsRateLimit(m)
    /\ IF attempt < max_retries - 1
       THEN /\ events' = events \o <<CallErr(attempt, m), Slept(attempt, BriefPause)>>
            /\ attempt' = attempt + 1
            /\ UNCHANGED <<gpc, gresult>>
       ELSE /\ events' = Append(events, CallErr(attempt, m))
            /\ gpc' = "raised"
            /\ UNCHANGED <<attempt, gresult>>
    /\ UNCHANGED <<max_retries, pvars, xvars>>

\* Variant of AttemptFailed: the pause uses the backoff delay.
AttemptFailed_BacksOff(m) ==
    /\ gpc = "loop" /\ attempt < max_retries
    /\ ~IsRateLimit(m)
    /\ IF attempt < max_retries - 1
       THEN /\ events' = events \o <<CallErr(attempt, m), Slept(attempt, WaitTime(attempt))>>
            /\ attempt' = attempt + 1
            /\ UNCHANGED <<gpc, gresult>>
       ELSE /\ events' = Append(events, CallErr(attempt, m))
            /\ gresult' = None
            /\ gpc' = "returned"
            /\ UNCHANGED attempt
    /\ UNCHANGED <<max_retries, pvars, xvars>>

\* Variant of AttemptFailed: only the first attempt is retried.
AttemptFailed_RetryOnce(m) ==
    /\ gpc = "loop" /\ attempt < max_retries
    /\ ~IsRateLimit(m)
    /\ IF attempt < 1 /\ attempt < max_retries - 1
       THEN /\ events' = events \o <<CallErr(attempt, m), Slept(attempt, BriefPause)>>
            /\ attempt' = attempt + 1
            /\ UNCHANGED <<gpc, gresult>>
       ELSE /\ events' = Append(events, CallErr(attempt, m))
            /\ gresult' = None
            /\ gpc' = "returned"
            /\ UNCHANGED attempt
    /\ UNCHANGED <<max_retries, pvars, xvars>>

\* An attempt that raises any other error: brief pause and continue, or return None.
AttemptFailed(m) ==
    /\ gpc = "loop" /\ attempt < max_retries
    /\ ~IsRateLimit(m)
    /\ IF attempt < max_retries - 1
       THEN /\ events' = events \o <<CallErr(attempt, m), Slept(attempt, BriefPause)>>
            /\ attempt' = attempt + 1
            /\ UNCHANGED <<gpc, gresult>>
       ELSE /\ events' = Append(events, CallErr(attempt, m))
            /\ gresult' = None
            /\ gpc' = "returned"
            /\ UNCHANGED attempt
    /\ UNCHANGED <<max_retries, pvars, xvars>>

\* The for loop is exhausted: the final "return None".
Exhausted ==
    /\ gpc = "loop" /\ attempt >= max_retries
    /\ gresult' = None
    /\ gpc' = "returned"
    /\ UNCHANGED <<max_retries, attempt, events, pvars, xvars>>

NextGen ==
    \/ \E c \in Contents : AttemptParsed(c)
    \/ \E c \in Contents : AttemptUnparsed(c)
    \/ \E m \in ErrorMessages : AttemptRateLimited(m)
    \/ \E m \in ErrorMessages : AttemptFailed(m)
    \/ Exhausted

SpecGen == InitGen /\ [][NextGen]_vars

----------------------------------------------------------------------------
(* Properties of generate_metadata_with_backoff (checked under SpecGen)    *)

\* Positions of the completion-service calls in the event log.
CallPositions == {i \in DOMAIN events : events[i].op = "call"}
\* Number of completion-service calls issued so far.
NumCalls == Cardinality(CallPositions)
\* 0-based index of the call at position i among the calls.
CallIndex(i) == Cardinality({j \in CallPositions : j < i})

\* The error messages that mention 429 or, in any case, "rate limit".
RateLimitMessages ==
    { <<"4", "2", "9">>, <<"x", "4", "2", "9", "x">>,
      <<"R", "a", "t", "e", " ", "L", "i", "m", "i", "t">> }
\* The error messages that do not.
OtherMessages == { <<"5", "0", "0">>, <<"r", "a", "t", "e">>, <<>> }
\* The completions that yield no metadata: absent, empty, or a bare 'TITLE:'.
UnusableContents == { <<"None">>, <<>>, <<"T", "I", "T", "L", "E", ":">> }

IsRateLimitedCall(i) ==
    events[i].op = "call" /\ events[i].kind = "error" /\ events[i].text \in RateLimitMessages
IsOtherFailureCall(i) ==
    events[i].op = "call" /\ events[i].kind = "error" /\ events[i].text \in OtherMessages
IsUnusableCall(i) ==
    events[i].op = "call" /\ events[i].kind = "content" /\ events[i].text \in UnusableContents
IsUsableCall(i) ==
    events[i].op = "call" /\ events[i].kind = "content" /\ events[i].text \notin UnusableContents

\* The call at position i was the last thing the function did: it returned r.
ReturnedAt(i, r) == i = Len(events) /\ gpc = "returned" /\ gresult = r
\* The call at position i is followed by a sleep of n seconds and then by the
\* next attempt (already made, or about to be made).
SleptThenRetried(i, n) ==
    /\ i < Len(events)
    /\ events[i + 1].op = "sleep" /\ events[i + 1].seconds = n
    /\ IF i + 1 < Len(events)
       THEN events[i + 2].op = "call" /\ CallIndex(i + 2) = CallIndex(i) + 1
       ELSE gpc = "loop" /\ attempt = CallIndex(i) + 1 /\ attempt < max_retries

\* C1: one call of generate_metadata_with_backoff issues at most max_retries
\* completion-service calls; with max_retries = 3, three consecutive
\* rate-limit failures end the call with None (no fourth call).
C1_AtMostMaxRetriesCalls ==
    /\ NumCalls <= max_retries
    /\ (max_retries = 3 /\ NumCalls = 3 /\ \A i \in CallPositions : IsRateLimitedCall(i))
           => (gpc = "returned" /\ gresult = None)

C1_Witness ==
    /\ max_retries = 3 /\ NumCalls = 3 /\ gpc = "returned" /\ gresult = None
    /\ \A i \in CallPositions : IsRateLimitedCall(i)

\* C2: a completion that parses to valid metadata ends the function at once:
\* it is the last event (no later call, no later sleep) and the value
\* returned is the parse of that one completion.
C2_ValidParseReturnsImmediately ==
    \A i \in DOMAIN events :
        IsUsableCall(i) => ReturnedAt(i, parse_groq_response(events[i].text))

C2_Witness ==
    /\ gpc = "returned" /\ gresult # None
    /\ Len(events) >= 3
    /\ IsUsableCall(Len(events))
    /\ \E i \in DOMAIN events : IsUnusableCall(i)

\* C3: if no attempt yields a valid parse, the function returns None after
\* exactly max_retries attempts, and never ends by raising.
C3_ExhaustionReturnsNone ==
    /\ gpc \in {"loop", "returned"}
    /\ (gpc = "returned" /\ \A i \in CallPositions : ~IsUsableCall(i))
           => (gresult = None /\ NumCalls = max_retries)

C3_Witness ==
    /\ gpc = "returned" /\ gresult = None /\ max_retries >= 3
    /\ \E i \in CallPositions : IsUnusableCall(i)
    /\ \E i \in CallPositions : IsOtherFailureCall(i)
    /\ \E i \in CallPositions : IsRateLimitedCall(i)

\* C4: a rate-limit failure at attempt a (0-based) is followed by a sleep of
\* exactly 2^a * 2 seconds and the next attempt when a < max_retries - 1,
\* and by the return of None, without a sleep, when a = max_retries - 1.
C4_RateLimitBackoff ==
    \A i \in DOMAIN events :
        IsRateLimitedCall(i) =>
            IF CallIndex(i) < max_retries - 1
            THEN SleptThenRetried(i, (2 ^ CallIndex(i)) * 2)
            ELSE ReturnedAt(i, None)

C4_Witness ==
    /\ gpc = "returned" /\ max_retries = 4 /\ NumCalls = 4
    /\ IsOtherFailureCall(1)
    /\ \E i \in CallPositions : CallIndex(i) = 2 /\ IsRateLimitedCall(i)
                                   /\ events[i + 1].op = "sleep" /\ events[i + 1].seconds = 8
    /\ IsRateLimitedCall(Len(events))

\* C5: a failure that is not a rate-limit failure is followed by a sleep of
\* exactly 1 second and the next attempt, unless it happened on the final
\* attempt, where None is returned without a sleep.
C5_OtherFailurePause ==
    \A i \in DOMAIN events :
        IsOtherFailureCall(i) =>
            IF CallIndex(i) < max_retries - 1
            THEN SleptThenRetried(i, 1)
            ELSE ReturnedAt(i, None)

C5_Witness ==
    /\ gpc = "returned" /\ max_retries = 3 /\ NumCalls = 3
    /\ IsOtherFailureCall(1) /\ events[2].op = "sleep" /\ events[2].seconds = 1
    /\ IsOtherFailureCall(Len(events))

\* The call at position i and the call before it both failed for reasons
\* other than rate limiting.
SecondConsecutiveOtherFailure(i) ==
    /\ IsOtherFailureCall(i)
    /\ \E j \in CallPositions : CallIndex(j) + 1 = CallIndex(i) /\ IsOtherFailureCall(j)

\* C6 as stated: after a second consecutive non-rate-limit failure the
\* function returns None without a further attempt (one retry only).
C6_RetriedOnceThenEscalated ==
    \A i \in DOMAIN events :
        SecondConsecutiveOtherFailure(i) => ReturnedAt(i, None)

\* C6 as amended: a second consecutive non-rate-limit failure ends the
\* function with None exactly when it happened on the final attempt
\* (index max_retries - 1); on an earlier attempt it is retried again after
\* a 1-second sleep. With the default max_retries = 3 there are two retries.
C6_RetriedUntilFinalAttempt ==
    \A i \in DOMAIN events :
        SecondConsecutiveOtherFailure(i) =>
            /\ ReturnedAt(i, None) <=> (CallIndex(i) = max_retries - 1)
            /\ (CallIndex(i) # max_retries - 1) => SleptThenRetried(i, 1)

C6_Witness ==
    /\ max_retries = 3 /\ NumCalls = 3 /\ gpc = "returned" /\ gresult = None
    /\ \A i \in CallPositions : IsOtherFailureCall(i)

\* C7: a completion that yields no metadata is followed directly by the next
\* attempt, with no sleep in between; on the final attempt nothing follows
\* it and the function returns None.
C7_ParseFailureRetriesWithoutDelay ==
    \A i \in DOMAIN events :
        IsUnusableCall(i) =>
            IF CallIndex(i) < max_retries - 1
            THEN IF i < Len(events)
                 THEN events[i + 1].op = "call" /\ CallIndex(i + 1) = CallIndex(i) + 1
                 ELSE gpc = "loop" /\ attempt = CallIndex(i) + 1
            ELSE /\ i = Len(events)
                 /\ gpc = "returned" => gresult = None
                 /\ gpc = "loop" => attempt = max_retries

C7_Witness ==
    /\ gpc = "returned" /\ gresult = None /\ max_retries >= 2
    /\ IsUnusableCall(Len(events))
    /\ \E i \in DOMAIN events : i < Len(events) /\ IsUnusableCall(i)
                                   /\ events[i].text = <<"T", "I", "T", "L", "E", ":">>

----------------------------------------------------------------------------
(* Properties of parse_groq_response (checked under SpecParse)             *)

\* s without its leading and trailing characters that are in cs.
Trim(s, cs) ==
    LET keep == {i \in 1..Len(s) : s[i] \notin cs}
        lo == CHOOSE i \in keep : \A j \in keep : i <= j
        hi == CHOOSE i \in keep : \A j \in keep : j <= i
    IN  IF keep = {} THEN <<>> ELSE [k \in 1..(hi - lo + 1) |-> s[lo + k - 1]]

Blanks == {" ", "\n", "\t"}

\* The title text of X after stripping: blanks, then double quotes, single
\* quotes, double quotes, single quotes, then asterisks, then blanks.
TitleText(X) ==
    Trim(Trim(Trim(Trim(Trim(Trim(Trim(X, Blanks), {"\""}), {"'"}), {"\""}), {"'"}),
              {"*"}), Blanks)

\* X without any surrounding quote character.
QuoteStripped(X) == Trim(X, {"\"", "'"})

\* The document is the two-line response 'TITLE: X' / 'DESCRIPTION: Y'
\* (labels in upper or mixed case).
IsLabeledPair ==
    /\ Len(doc) = 2
    /\ doc[1].label \in {TITLE_LABEL, Title_mixed}
    /\ doc[2].label \in {DESCRIPTION_LABEL, Description_mixed}

\* The title of a source text S: S itself up to 53 characters, otherwise
\* its first 50 characters and '...'.
Truncated(S) ==
    IF Len(S) > 53 THEN [k \in 1..53 |-> IF k <= 50 THEN S[k] ELSE "."] ELSE S

\* C8: whenever the parser returns a record, its title has between 1 and 53
\* characters and its description is not empty.
C8_RecordIsValid ==
    ppc = "parsed" =>
        \/ parsed = None
        \/ /\ Len(parsed.title) >= 1 /\ Len(parsed.title) <= 53
           /\ Len(parsed.description) >= 1

C8_Witness ==
    /\ ppc = "parsed" /\ parsed # None
    /\ Len(parsed.title) = 53
    /\ Len(doc) = 1 /\ doc[1].label = <<>>

C11_ReparseIsIdentity ==
    ppc = "reparsed" => reparsed = parsed


----------------------------------------------------------------------------
(* parse_vtt_content                                                       *)

WEBVTT == <<"W", "E", "B", "V", "T", "T">>
ARROW == <<"-", "-", ">">>
NOTE == <<"N", "O", "T", "E">>
Digits == {"0", "1", "2", "3", "4", "5", "6", "7", "8", "9"}
\* [a-zA-Z]
Letters ==
    {"a", "b", "c", "d", "e", "f", "g", "h", "i", "j", "k", "l", "m",
     "n", "o", "p", "q", "r", "s", "t", "u", "v", "w", "x", "y", "z",
     "A", "B", "C", "D", "E", "F", "G", "H", "I", "J", "K", "L", "M",
     "N", "O", "P", "Q", "R", "S", "T", "U", "V", "W", "X", "Y", "Z"}

\* re.match(r'^\d+$', line) on a stripped line: one or more characters, all digits.
AllDigits(line) == line # <<>> /\ \A i \in 1..Len(line) : line[i] \in Digits

\* re.sub(r'<[^>]+>', '', s) from index i on: a match starts at a '<' that is
\* followed by at least one character other than '>' and then by a '>'; it ends
\* at the first '>' after the '<'.
RECURSIVE StripTagsFrom(_, _)
StripTagsFrom(s, i) ==
    IF i > Len(s) THEN <<>>
    ELSE LET j == Find(s, <<">">>, i + 1)
         IN  IF s[i] = "<" /\ j > i + 1 THEN StripTagsFrom(s, j + 1)
             ELSE <<s[i]>> \o StripTagsFrom(s, i + 1)


\* re.sub(r'&[a-zA-Z]+;', '', s) from index i on: a match is '&', the longest
\* run of letters after it (at least one), and a ';' right after the run.
RECURSIVE StripEntitiesFrom(_, _)
StripEntitiesFrom(s, i) ==
    IF i > Len(s) THEN <<>>
    ELSE LET k == SkipFwd(s, i + 1, Letters)
         IN  IF s[i] = "&" /\ k > i + 1 /\ k <= Len(s) /\ s[k] = ";"
             THEN StripEntitiesFrom(s, k + 1)
             ELSE <<s[i]>> \o StripEntitiesFrom(s, i + 1)


\* The two substitutions that give clean_line.
CleanLine(line) == StripEntitiesFrom(StripTagsFrom(line, 1), 1)

\* The condition under which the loop skips a stripped line.
Discarded(line) ==
    \/ line = <<>>
    \/ StartsWith(line, WEBVTT)
    \/ Contains(line, ARROW)
    \/ StartsWith(line, NOTE)
    \/ AllDigits(line)

\* clean_line in transcript_parts
InParts(parts, clean_line) == \E k \in 1..Len(parts) : parts[k] = clean_line

\* One iteration of the loop that appends every cleaned line, empty or
\* repeated, that passes the filter.
RetainLine_KeepsAll(parts, raw) ==
    LET line == Strip(raw)
    IN  IF Discarded(line) THEN parts ELSE Append(parts, CleanLine(line))

\* One iteration of the loop that appends a non-empty cleaned line whether
\* or not it is already retained.
RetainLine_NoDedup(parts, raw) ==
    LET line == Strip(raw)
        clean_line == CleanLine(line)
    IN  IF Discarded(line) THEN parts
        ELSE IF clean_line # <<>> THEN Append(parts, clean_line)
        ELSE parts

\* One iteration of the loop over the lines: the new transcript_parts.
RetainLine(parts, raw) ==
    LET line == Strip(raw)
        clean_line == CleanLine(line)
    IN  IF Discarded(line) THEN parts
        ELSE IF clean_line # <<>> /\ ~InParts(parts, clean_line)
             THEN Append(parts, clean_line)
        ELSE parts

\* The loop over lines[i..], starting with transcript_parts = parts.
RECURSIVE RetainLines(_, _, _)
RetainLines(lines, i, parts) ==
    IF i > Len(lines) THEN parts
    ELSE RetainLines(lines, i + 1, RetainLine(parts, lines[i]))

\* transcript_parts at the end of parse_vtt_content(vtt_content).
PartsOf(content_) == RetainLines(Split(content_, NL), 1, <<>>)

\* The return value of parse_vtt_content(vtt_content).
parse_vtt_content(content_) == Join(PartsOf(content_), SP)


\* Bound: the caption documents have up to this many lines.
MaxVttLines == 3

\* The lines the caption documents are built from: the structural lines the
\* filter names, cue text, cue text inside inline tags, and lines that take a
\* structural form only once tags and entities are removed.
VttLines ==
    { <<"W", "E", "B", "V", "T", "T">>, <<"4", "2">>, <<"0", "0", ":", "0", "1", " ", "-", "-", ">", " ", "0", "0", ":", "0", "2">>, <<"N", "O", "T", "E", " ", "x">>, <<>>,
      <<"A">>, <<"B">>, <<" ", "A", " ">>, <<"<", "c", ">", "A", "<", "/", "c", ">">>, <<"<", "c", ">", "4", "2", "<", "/", "c", ">">>, <<"<", "c", ">", "<", "/", "c", ">">>,
      <<"A", "&", "a", "m", "p", ";", "B">>, <<"-", "<", "c", ">", "-", ">", "<", "/", "c", ">">>, <<"<", "b", ">", "W", "E", "B", "V", "T", "T", "<", "/", "b", ">">>, <<"<", ">">> }

\* The document of the repeated-cue scenario.
HelloHelloBye == << <<"H", "e", "l", "l", "o", " ", "w", "o", "r", "l", "d">>, <<"H", "e", "l", "l", "o", " ", "w", "o", "r", "l", "d">>, <<"B", "y", "e">> >>

\* The caption documents, as lists of lines.
VttDocs ==
    (UNION {[1..n -> VttLines] : n \in 1..MaxVttLines}) \cup {HelloHelloBye}

InitVtt ==
    /\ gpc = "off" /\ max_retries = 0 /\ attempt = 0 /\ events = <<>> /\ gresult = None
    /\ ppc = "off" /\ doc = <<>> /\ content = <<>> /\ parsed = None /\ reparsed = None
    /\ vpc = "input"
    /\ \E d \in VttDocs : vtt_content = Join(d, NL)
    /\ transcript_parts = <<>>
    /\ transcript = <<>>
    /\ IdleUrl /\ IdleVideo /\ IdleBatch

\* The call parse_vtt_content(vtt_content).
ParseVtt ==
    /\ vpc = "input"
    /\ transcript_parts' = PartsOf(vtt_content)
    /\ transcript' = parse_vtt_content(vtt_content)
    /\ vpc' = "parsed"
    /\ UNCHANGED <<vtt_content, gvars, pvars, urlvars, videovars, batchvars>>

NextVtt == ParseVtt

SpecVtt == InitVtt /\ [][NextVtt]_vars

----------------------------------------------------------------------------
(* Claims about parse_vtt_content                                          *)

\* The stripped lines of the document, in source order.
VttLinesOf == StripAll(Split(vtt_content, NL))

\* Indices of the lines that pass the discard filter.
Passing == {i \in 1..Len(VttLinesOf) : ~Discarded(VttLinesOf[i])}

\* C12 as stated: no retained cleaned line contains '-->', starts with
\* 'WEBVTT' or 'NOTE', or consists only of digits, also when the line takes
\* that form only after its tags and entities are removed.
C12_NoStructuralLineRetained ==
    vpc = "parsed" =>
        \A k \in 1..Len(transcript_parts) :
            /\ ~Contains(transcript_parts[k], ARROW)
            /\ ~StartsWith(transcript_parts[k], WEBVTT)
            /\ ~StartsWith(transcript_parts[k], NOTE)
            /\ ~AllDigits(transcript_parts[k])


\* The cleaned texts of the lines i.. that pass the discard filter, in source order.
RECURSIVE CleanedFrom(_)
CleanedFrom(i) ==
    IF i > Len(VttLinesOf) THEN <<>>
    ELSE (IF i \in Passing THEN <<CleanLine(VttLinesOf[i])>> ELSE <<>>) \o CleanedFrom(i + 1)

\* The transcript is the join of the retained lines.
IsJoinOfParts == transcript = Join(transcript_parts, SP)

\* C13: in the transcript no two consecutive retained cue lines are identical;
\* the cue lines 'Hello world', 'Hello world', 'Bye' give 'Hello world Bye'.
C13_NoConsecutiveRepeat ==
    vpc = "parsed" =>
        /\ IsJoinOfParts
        /\ \A k \in 1..(Len(transcript_parts) - 1) :
               transcript_parts[k] # transcript_parts[k + 1]
        /\ (vtt_content = Join(HelloHelloBye, NL) => transcript = <<"H", "e", "l", "l", "o", " ", "w", "o", "r", "l", "d", " ", "B", "y", "e">>)

C13_Witness ==
    /\ vpc = "parsed"
    /\ vtt_content = Join(HelloHelloBye, NL)
    /\ transcript_parts = << <<"H", "e", "l", "l", "o", " ", "w", "o", "r", "l", "d">>, <<"B", "y", "e">> >>

\* Every non-empty cleaned text of a line that passes the filter is a
\* substring of the transcript.
CleanedTextsOccur ==
    \A i \in Passing :
        CleanLine(VttLinesOf[i]) # <<>> => Contains(transcript, CleanLine(VttLinesOf[i]))

RECURSIVE FirstOccurrences(_, _)
FirstOccurrences(s, i) ==
    IF i > Len(s) THEN <<>>
    ELSE (IF s[i] # <<>> /\ \A j \in 1..(i - 1) : s[j] # s[i] THEN <<s[i]>> ELSE <<>>)
         \o FirstOccurrences(s, i + 1)

RECURSIVE AdjacentDistinct(_, _, _)
AdjacentDistinct(s, i, kept) ==
    IF i > Len(s) THEN kept
    ELSE IF s[i] # <<>> /\ (kept = <<>> \/ kept[Len(kept)] # s[i])
         THEN AdjacentDistinct(s, i + 1, Append(kept, s[i]))
    ELSE AdjacentDistinct(s, i + 1, kept)

\* C20 as stated: a non-empty cleaned line is appended exactly when it differs
\* from the most recently retained cleaned line; the cue lines 'A', 'B', 'A'
\* give the transcript 'A B A'.
C20_AppendedIffDiffersFromLast ==
    vpc = "parsed" =>
        /\ transcript_parts = AdjacentDistinct(CleanedFrom(1), 1, <<>>)
        /\ (vtt_content = <<"A", "\n", "B", "\n", "A">> => transcript = <<"A", " ", "B", " ", "A">>)


----------------------------------------------------------------------------
(* Claims about the bold-label format                                      *)

\* The document is the two-line response '**Title:** X' / '**Description:** Y'
\* with X and Y not empty; it has no line that starts with 'TITLE:'.
IsBoldLabeledPair ==
    /\ Len(doc) = 2
    /\ doc[1].label = BOLD_Title /\ TitleText(TextOf(doc[1])) # <<>>
    /\ doc[2].label = BOLD_Description /\ doc[2].body # <<>>

\* C19 as stated: for a response with the bold marker '**Title:**' and no line
\* starting with 'TITLE:', the parser returns as title the text after the bold
\* Title: marker up to the end of the line (cleaned and limited as every
\* title) and as description the text after the bold '**Description:**' marker.
C19_BoldLabelFormat ==
    (ppc = "parsed" /\ IsBoldLabeledPair) =>
        /\ parsed # None
        /\ parsed.title = Truncated(TitleText(TextOf(doc[1])))
        /\ parsed.description = Trim(TextOf(doc[2]), Blanks)


----------------------------------------------------------------------------
(* extract_video_id                                                        *)

\* [0-9A-Za-z_-]
IdChars == Digits \cup Letters \cup {"_", "-"}

\* {11}
IdLen == 11

V_EQ == <<"v", "=">>
SLASH == <<"/">>
EMBED_SLASH == <<"e", "m", "b", "e", "d", "/">>
V_SLASH == <<"v", "/">>

\* ([0-9A-Za-z_-]{11}) matches at index i of s.
IsIdAt(s, i) ==
    /\ i + IdLen - 1 <= Len(s)
    /\ \A k \in i..(i + IdLen - 1) : s[k] \in IdChars

\* The prefix p of the pattern matches at index i of s and the group follows it.
MatchesAt(s, i, p) ==
    /\ i + Len(p) - 1 <= Len(s)
    /\ SubSeq(s, i, i + Len(p) - 1) = p
    /\ IsIdAt(s, i + Len(p))

\* re.search(r'(?:p1|p2|...)([0-9A-Za-z_-]{11})', s) for the alternatives ps,
\* tried in order at each index from the left: <<"match", group>> or <<"nomatch">>.
RECURSIVE ReSearchId(_, _, _)
ReSearchId(s, ps, i) ==
    IF i > Len(s) THEN <<"nomatch">>
    ELSE IF \E n \in 1..Len(ps) : MatchesAt(s, i, ps[n])
    THEN LET n == CHOOSE n \in 1..Len(ps) :
                      /\ MatchesAt(s, i, ps[n])
                      /\ \A o \in 1..(n - 1) : ~MatchesAt(s, i, ps[o])
             g == i + Len(ps[n])
         IN  <<"match", SubSeq(s, g, g + IdLen - 1)>>
    ELSE ReSearchId(s, ps, i + 1)

\* The patterns list: the alternatives of each pattern.
Patterns == << <<V_EQ, SLASH>>, <<EMBED_SLASH>>, <<V_SLASH>> >>

\* urlparse(url).query: the text after the first '?' of the part of the url
\* that precedes the first '#'.
UrlQuery(u) ==
    LET h == Find(u, <<"#">>, 1)
        base == IF h = 0 THEN u ELSE SubSeq(u, 1, h - 1)
        q == Find(base, <<"?">>, 1)
    IN  IF q = 0 THEN <<>> ELSE From(base, q)

\* parse_qs(query): the name and value of the field pair, or <<>> for a field
\* that parse_qs drops (no '=', or an empty value).
QsField(pair) ==
    LET e == Find(pair, <<"=">>, 1)
    IN  IF e = 0 \/ e = Len(pair) THEN <<>>
        ELSE <<SubSeq(pair, 1, e - 1), From(pair, e)>>

\* params['v'][0] when 'v' in params, else NoContent: the value of the first
\* kept field named v among fields[i..].
RECURSIVE FirstV(_, _)
FirstV(fields, i) ==
    IF i > Len(fields) THEN NoContent
    ELSE LET f == QsField(fields[i])
         IN  IF f # <<>> /\ f[1] = <<"v">> THEN f[2] ELSE FirstV(fields, i + 1)

\* The query-parameter fallback after the patterns.
QueryFallback(u) ==
    IF UrlQuery(u) # <<>> THEN FirstV(Split(UrlQuery(u), <<"&">>), 1) ELSE NoContent

\* The loop over the patterns from pattern n on, then the fallback.
RECURSIVE TryPatterns(_, _)
TryPatterns(u, n) ==
    IF n > Len(Patterns) THEN QueryFallback(u)
    ELSE LET match == ReSearchId(u, Patterns[n], 1)
         IN  IF match[1] = "match" THEN match[2] ELSE TryPatterns(u, n + 1)

\* Variant of extract_video_id: no query-parameter fallback.
extract_video_id_PatternsOnly(u) ==
    LET match == ReSearchId(u, Patterns[1], 1)
    IN  IF match[1] = "match" THEN match[2] ELSE NoContent

\* The return value of extract_video_id(url).
extract_video_id(u) ==
    TryPatterns(u, 1)


\* The four URL forms, up to the ID.
WATCH_URL == <<"h", "t", "t", "p", "s", ":", "/", "/", "w", "w", "w", ".", "y", "o", "u", "t", "u", "b", "e", ".", "c", "o", "m", "/", "w", "a", "t", "c", "h", "?", "v", "=">>
MOBILE_URL == <<"h", "t", "t", "p", "s", ":", "/", "/", "m", ".", "y", "o", "u", "t", "u", "b", "e", ".", "c", "o", "m", "/", "w", "a", "t", "c", "h", "?", "v", "=">>
SHORT_URL == <<"h", "t", "t", "p", "s", ":", "/", "/", "y", "o", "u", "t", "u", ".", "b", "e", "/">>
EMBED_URL == <<"h", "t", "t", "p", "s", ":", "/", "/", "w", "w", "w", ".", "y", "o", "u", "t", "u", "b", "e", ".", "c", "o", "m", "/", "e", "m", "b", "e", "d", "/">>
UrlForms == {WATCH_URL, MOBILE_URL, SHORT_URL, EMBED_URL}

\* Strings that are not of the four forms.
OtherUrls ==
    { <<>>, <<"i", "n", "v", "a", "l", "i", "d", "_", "u", "r", "l">>,
      <<"h", "t", "t", "p", "s", ":", "/", "/", "w", "w", "w", ".", "y", "o", "u", "t", "u", "b", "e", ".", "c", "o", "m", "/", "w", "a", "t", "c", "h", "?", "v", "=", "a", "b", "c">>,
      <<"h", "t", "t", "p", "s", ":", "/", "/", "w", "w", "w", ".", "y", "o", "u", "t", "u", "b", "e", ".", "c", "o", "m", "/", "w", "a", "t", "c", "h", "?", "v", "=">>,
      <<"h", "t", "t", "p", "s", ":", "/", "/", "w", "w", "w", ".", "y", "o", "u", "t", "u", "b", "e", ".", "c", "o", "m", "/", "w", "a", "t", "c", "h", "?", "l", "i", "s", "t", "=", "P", "L", "x", "&", "v", "=", "a", "b", "c", "&", "v", "=", "x", "y", "z">>,
      <<"h", "t", "t", "p", "s", ":", "/", "/", "w", "w", "w", ".", "y", "o", "u", "t", "u", "b", "e", ".", "c", "o", "m", "/", "w", "a", "t", "c", "h", "?", "v", "v", "=", "a", "b", "c", "&", "t">>,
      <<"h", "t", "t", "p", "s", ":", "/", "/", "w", "w", "w", ".", "y", "o", "u", "t", "u", "b", "e", ".", "c", "o", "m", "/", "w", "a", "t", "c", "h", "#", "?", "v", "=", "a", "b", "c">>,
      <<"h", "t", "t", "p", "s", ":", "/", "/", "w", "w", "w", ".", "y", "o", "u", "t", "u", "b", "e", ".", "c", "o", "m", "/", "w", "a", "t", "c", "h", "?", "v", "=", "a", "b", "c", "#", "d">>,
      <<"h", "t", "t", "p", "s", ":", "/", "/", "w", "w", "w", ".", "y", "o", "u", "t", "u", "b", "e", ".", "c", "o", "m", "/", "w", "a", "t", "c", "h">>,
      <<"h", "t", "t", "p", "s", ":", "/", "/", "y", "o", "u", "t", "u", ".", "b", "e", "/", "d", "Q", "w", "4", "w", "9", "W", "g", "X", "c">>,
      <<"h", "t", "t", "p", "s", ":", "/", "/", "y", "o", "u", "t", "u", ".", "b", "e", "/", "d", "Q", "w", "4", "w", "9", "W", "g", "X", "c", "?", "v", "=", "d", "Q", "w", "4", "w", "9", "W", "g", "X", "c">>,
      <<"h", "t", "t", "p", "s", ":", "/", "/", "w", "w", "w", ".", "y", "o", "u", "t", "u", "b", "e", ".", "c", "o", "m", "/", "v", "/", "d", "Q", "w", "4", "w", "9", "W", "g", "X", "c", "Q">>,
      <<"h", "t", "t", "p", "s", ":", "/", "/", "w", "w", "w", ".", "y", "o", "u", "t", "u", "b", "e", ".", "c", "o", "m", "/", "c", "h", "a", "n", "n", "e", "l", "/", "U", "C", "a", "b", "c", "d", "e", "f", "g", "h", "i", "j", "k">>,
      <<"w", "a", "t", "c", "h", "?", "v", "=", "d", "Q", "w", "4", "w", "9", "W", "g", "X", "c", "Q">> }

\* The urls: each form with each of the video IDs (the one of the tests, and
\* IDs at the edges of the character class) and each of the texts that may
\* follow the ID, and the other strings.
Urls ==
    LET VideoIds ==
            { <<"d", "Q", "w", "4", "w", "9", "W", "g", "X", "c", "Q">>, <<"-", "_", "0", "1", "2", "3", "4", "5", "6", "A", "z">>, <<"a", "b", "c", "d", "e", "f", "g", "h", "i", "j", "k">>, <<"_", "_", "_", "_", "_", "_", "_", "_", "_", "_", "_">>, <<"9", "Z", "z", "-", "A", "a", "A", "-", "0", "_", "v">> }
        UrlSuffixes ==
            { <<>>, <<"&", "t", "=", "3", "0", "s">>, <<"?", "t", "=", "3", "0", "s">>, <<"#", "t", "=", "3", "0">>, <<"&", "v", "=", "a", "b", "c">> }
    IN  {f \o id \o s : f \in UrlForms, id \in VideoIds, s \in UrlSuffixes} \cup OtherUrls

InitUrl ==
    /\ gpc = "off" /\ max_retries = 0 /\ attempt = 0 /\ events = <<>> /\ gresult = None
    /\ ppc = "off" /\ doc = <<>> /\ content = <<>> /\ parsed = None /\ reparsed = None
    /\ IdleVtt
    /\ upc = "input"
    /\ url \in Urls
    /\ video_id = NoContent
    /\ IdleVideo /\ IdleBatch

\* The call extract_video_id(url).
ExtractVideoId ==
    /\ upc = "input"
    /\ video_id' = extract_video_id(url)
    /\ upc' = "returned"
    /\ UNCHANGED <<url, gvars, pvars, vttvars, videovars, batchvars>>

NextUrl == ExtractVideoId

SpecUrl == InitUrl /\ [][NextUrl]_vars

----------------------------------------------------------------------------
(* Claims about extract_video_id                                           *)

\* The url is f followed by an 11-character ID and then nothing or a
\* delimiter of further parameters.
IsOfForm(f) ==
    /\ StartsWith(url, f)
    /\ IsIdAt(url, Len(f) + 1)
    /\ \/ Len(url) = Len(f) + IdLen
       \/ url[Len(f) + IdLen + 1] \in {"&", "?", "#"}

\* The url has no 11-character ID after a 'v=' or a '/'.
HasNoId ==
    \A i \in 1..Len(url) : ~MatchesAt(url, i, V_EQ) /\ ~MatchesAt(url, i, SLASH)

\* The values of the non-empty query parameters named v, as indices of fields.
VFields ==
    LET fields == Split(UrlQuery(url), <<"&">>)
    IN  {i \in 1..Len(fields) :
            /\ Len(fields[i]) > 2
            /\ SubSeq(fields[i], 1, 2) = V_EQ}

\* The four forms give the ID.
FormsGiveId ==
    \A f \in UrlForms :
        IsOfForm(f) => video_id = SubSeq(url, Len(f) + 1, Len(f) + IdLen)

\* C18 as stated: the four URL forms give the 11-character ID, also with
\* further parameters after it; the empty string and every string without
\* such an ID give None.
C18_IdOrNone ==
    upc = "returned" =>
        /\ FormsGiveId
        /\ (url = <<>> \/ HasNoId) => video_id = NoContent

\* C18, amended: the four URL forms give the 11-character ID, also with
\* further parameters after it; the empty string and every string that has
\* neither such an ID nor a non-empty query parameter v give None; a string
\* without such an ID whose query has a non-empty parameter v gives the value
\* of the first such parameter.
C18_IdOrFirstVOrNone ==
    upc = "returned" =>
        /\ FormsGiveId
        /\ (HasNoId /\ VFields = {}) => video_id = NoContent
        /\ (HasNoId /\ VFields # {}) =>
               LET fields == Split(UrlQuery(url), <<"&">>)
                   i == CHOOSE i \in VFields : \A j \in VFields : i <= j
               IN  video_id = From(fields[i], 2)

\* A watch URL with '&t=30s' after the ID has given the ID.
C18_Witness ==
    /\ upc = "returned"
    /\ url = WATCH_URL \o <<"d", "Q", "w", "4", "w", "9", "W", "g", "X", "c", "Q", "&", "t", "=", "3", "0", "s">>
    /\ video_id = <<"d", "Q", "w", "4", "w", "9", "W", "g", "X", "c", "Q">>


----------------------------------------------------------------------------
(* process_video                                                           *)

\* len(transcript) > 8000
TranscriptLimit == 8000

MD_EXT == <<".", "m", "d">>

\* What the caption download of extract_captions can yield: nothing (no
\* English captions, no subtitle URL, or an exception), or a caption document.
CaptionDownloads ==
    { NoContent,
      Join(<<WEBVTT, <<>>, <<"0", "0", ":", "0", "1", " ", "-", "-", ">", " ", "0", "0", ":", "0", "2">>, <<"A">>>>, NL),
      Join(<<WEBVTT, <<>>, <<"0", "0", ":", "0", "1", " ", "-", "-", ">", " ", "0", "0", ":", "0", "2">>>>, NL) }

\* The return value of extract_captions when the download yields fetched.
extract_captions(fetched) ==
    IF fetched = NoContent THEN NoContent
    ELSE IF parse_vtt_content(fetched) = <<>> THEN NoContent
    ELSE parse_vtt_content(fetched)

\* `not transcript`
NotTranscript(t) == t = NoContent \/ t = <<>>

\* `not video_id`
NotVideoId(id) == id = NoContent \/ id = <<>>

\* Variant of Truncate: a transcript of exactly the limit is truncated too.
Truncate_AtLimit(t) ==
    IF Len(t) >= TranscriptLimit THEN Upto(t, TranscriptLimit) \o ELLIPSIS ELSE t

\* The transcript given to generate_metadata_with_backoff.
Truncate(t) ==
    IF Len(t) > TranscriptLimit THEN Upto(t, TranscriptLimit) \o ELLIPSIS ELSE t

\* The return values of generate_metadata_with_backoff: None, or the record
\* parsed from a completion.
GenOutcomes == {Metadata(c) : c \in Contents}

\* The filename save_metadata returns: '<video_id>.md', or '' on an exception.
save_metadata(id, save_ok) == IF save_ok THEN id \o MD_EXT ELSE <<>>

\* The file save_metadata writes.
SavedFile(id, metadata) ==
    [name |-> id \o MD_EXT, title |-> metadata.title, description |-> metadata.description]

\* The files after save_metadata has written (or failed to write) a file.
Written(fs, id, metadata, save_ok) ==
    IF save_ok
    THEN {f \in fs : f.name # id \o MD_EXT} \cup {SavedFile(id, metadata)}
    ELSE fs

\* The record process_video returns.
VideoRecord(id, metadata, filename) ==
    [video_id |-> id, title |-> metadata.title,
     description |-> metadata.description, file_path |-> filename]

\* The return value of process_video(u) run from start to end, when the
\* caption download yields fetched, the generation returns generated and the
\* file write succeeds or not.
process_video(u, fetched, generated, save_ok) ==
    IF NotVideoId(extract_video_id(u)) THEN None
    ELSE IF NotTranscript(extract_captions(fetched)) THEN None
    ELSE IF generated = None THEN None
    ELSE VideoRecord(extract_video_id(u), generated,
                     save_metadata(extract_video_id(u), save_ok))

\* The urls given to process_video: one with an 11-character ID, one whose ID
\* comes from the query fallback, one without ID.
VideoUrls ==
    { SHORT_URL \o <<"d", "Q", "w", "4", "w", "9", "W", "g", "X", "c", "Q">>,
      WATCH_URL \o <<"a", "b", "c">>, <<"i", "n", "v", "a", "l", "i", "d", "_", "u", "r", "l">> }

InitVideo ==
    /\ gpc = "off" /\ max_retries = 0 /\ attempt = 0 /\ events = <<>> /\ gresult = None
    /\ ppc = "off" /\ doc = <<>> /\ content = <<>> /\ parsed = None /\ reparsed = None
    /\ IdleVtt /\ IdleUrl /\ IdleBatch
    /\ self = Constructed
    /\ inv = [i \in Invocations |-> IdleInvocation]
    /\ files = {}

\* A caller invokes process_video(u) on the instance.
CallProcessVideo(i, u) ==
    /\ inv[i].pc = "idle"
    /\ inv' = [inv EXCEPT ![i].pc = "video_id", ![i].url = u]
    /\ UNCHANGED <<self, files, gvars, pvars, vttvars, urlvars, batchvars>>

\* Stage 1: video_id = self.extract_video_id(url); return None without one.
StageVideoId(i) ==
    /\ inv[i].pc = "video_id"
    /\ LET id == extract_video_id(inv[i].url)
       IN  inv' = [inv EXCEPT ![i].video_id = id,
                              ![i].trace = Append(@, "video_id"),
                              ![i].pc = IF NotVideoId(id) THEN "returned" ELSE "captions"]
    /\ UNCHANGED <<self, files, gvars, pvars, vttvars, urlvars, batchvars>>

\* Variant of StageCaptions: an empty transcript goes on to the generation.
StageCaptions_IgnoresFailure(i, fetched) ==
    /\ inv[i].pc = "captions"
    /\ inv' = [inv EXCEPT ![i].fetched = fetched,
                          ![i].transcript = extract_captions(fetched),
                          ![i].trace = Append(@, "captions"),
                          ![i].pc = "generate"]
    /\ UNCHANGED <<self, files, gvars, pvars, vttvars, urlvars, batchvars>>

\* Stage 2: transcript = self.extract_captions(url); return None without one.
StageCaptions(i, fetched) ==
    /\ inv[i].pc = "captions"
    /\ LET t == extract_captions(fetched)
       IN  inv' = [inv EXCEPT ![i].fetched = fetched,
                              ![i].transcript = t,
                              ![i].trace = Append(@, "captions"),
                              ![i].pc = IF NotTranscript(t) THEN "returned" ELSE "generate"]
    /\ UNCHANGED <<self, files, gvars, pvars, vttvars, urlvars, batchvars>>

\* Variant of StageGenerate: the client is created anew for the call.
StageGenerate_RenewsClient(i, generated) ==
    /\ inv[i].pc = "generate"
    /\ inv' = [inv EXCEPT ![i].sent = Truncate(inv[i].transcript),
                          ![i].metadata = generated,
                          ![i].trace = Append(@, "generate"),
                          ![i].pc = IF generated = None THEN "returned" ELSE "save"]
    /\ self' = [self EXCEPT !.groq_client = "client" \o "'"]
    /\ UNCHANGED <<files, gvars, pvars, vttvars, urlvars, batchvars>>

\* Stage 3: the transcript is truncated and given to
\* generate_metadata_with_backoff; return None without metadata.
StageGenerate(i, generated) ==
    /\ inv[i].pc = "generate"
    /\ inv' = [inv EXCEPT ![i].sent = Truncate(inv[i].transcript),
                          ![i].metadata = generated,
                          ![i].trace = Append(@, "generate"),
                          ![i].pc = IF generated = None THEN "returned" ELSE "save"]
    /\ UNCHANGED <<self, files, gvars, pvars, vttvars, urlvars, batchvars>>

\* Stage 4: filename = self.save_metadata(video_id, metadata); return the record.
StageSave(i, save_ok) ==
    /\ inv[i].pc = "save"
    /\ files' = Written(files, inv[i].video_id, inv[i].metadata, save_ok)
    /\ inv' = [inv EXCEPT ![i].save_ok = save_ok,
                          ![i].trace = Append(@, "save"),
                          ![i].result = VideoRecord(inv[i].video_id, inv[i].metadata,
                                                    save_metadata(inv[i].video_id, save_ok)),
                          ![i].pc = "returned"]
    /\ UNCHANGED <<self, gvars, pvars, vttvars, urlvars, batchvars>>

NextVideo ==
    \/ \E i \in Invocations, u \in VideoUrls : CallProcessVideo(i, u)
    \/ \E i \in Invocations : StageVideoId(i)
    \/ \E i \in Invocations, fetched \in CaptionDownloads : StageCaptions(i, fetched)
    \/ \E i \in Invocations, generated \in GenOutcomes : StageGenerate(i, generated)
    \/ \E i \in Invocations, save_ok \in BOOLEAN : StageSave(i, save_ok)

SpecVideo == InitVideo /\ [][NextVideo]_vars

----------------------------------------------------------------------------
(* process_video on long transcripts                                       *)

\* Characters of a caption text line of the long transcripts, the blank
\* after it included.
LineWidth == 80

\* A transcript of n characters (n >= LineWidth) as parse_vtt_content joins
\* it: distinct non-empty text lines ('x' with a 'y' whose place tells the
\* line, and a final 'a' or 'b'), one blank between two lines, and a last
\* line that ends with 'c'.
LongTranscript(n) ==
    LET q == ((n + 1) \div LineWidth) - 1
    IN  [i \in 1..n |->
            IF i > q * LineWidth THEN (IF i = n THEN "c" ELSE "x")
            ELSE LET k == (i - 1) \div LineWidth
                     p == ((i - 1) % LineWidth) + 1
                 IN  IF p = LineWidth THEN " "
                     ELSE IF p = LineWidth - 1 THEN (IF k < 70 THEN "a" ELSE "b")
                     ELSE IF p = (k % 70) + 1 THEN "y"
                     ELSE "x"]

\* Transcripts whose lengths are around the limit.
LongTranscripts ==
    { LongTranscript(n) : n \in (TranscriptLimit - 2)..(TranscriptLimit + MaxOver + 1) }

LongVideoUrls ==
    VideoUrls \cup { EMBED_URL \o <<"d", "Q", "w", "4", "w", "9", "W", "g", "X", "c", "Q">> }

\* Stage 2 when extract_captions returns the long transcript t.
StageTranscript(i, t) ==
    /\ inv[i].pc = "captions"
    /\ inv' = [inv EXCEPT ![i].transcript = t,
                          ![i].trace = Append(@, "captions"),
                          ![i].pc = IF NotTranscript(t) THEN "returned" ELSE "generate"]
    /\ UNCHANGED <<self, files, gvars, pvars, vttvars, urlvars, batchvars>>

\* One invocation of process_video; extract_captions returns the transcript
\* of a short caption download or a long transcript.
NextLongVideo ==
    \/ \E u \in LongVideoUrls : CallProcessVideo(1, u)
    \/ StageVideoId(1)
    \/ \E fetched \in CaptionDownloads : StageCaptions(1, fetched)
    \/ \E t \in LongTranscripts : StageTranscript(1, t)
    \/ \E generated \in GenOutcomes : StageGenerate(1, generated)
    \/ \E save_ok \in BOOLEAN : StageSave(1, save_ok)

SpecLongVideo == InitVideo /\ [][NextLongVideo]_vars


----------------------------------------------------------------------------
(* Claims about process_video                                              *)

StageOrder == <<"video_id", "captions", "generate", "save">>

\* s is an initial part of t.
IsPrefix(s, t) == Len(s) <= Len(t) /\ \A k \in 1..Len(s) : s[k] = t[k]

\* Invocation i has executed the stage.
Ran(i, stage) == \E k \in 1..Len(inv[i].trace) : inv[i].trace[k] = stage

\* Invocation i has a video ID, a non-empty transcript, metadata.
HasVideoId(i) == inv[i].video_id # NoContent /\ inv[i].video_id # <<>>
HasTranscript(i) == inv[i].transcript # NoContent /\ inv[i].transcript # <<>>
HasMetadata(i) == inv[i].metadata # None

\* C15: process_video runs its stages in the order video ID, captions,
\* generation, save; after a failed stage it returns None and runs no later
\* stage, so the generation is never called without a video ID and a
\* non-empty transcript and nothing is saved without metadata; it returns a
\* record only when the first three stages succeeded.
C15_StagesInOrder ==
    /\ \A f \in files : Len(f.title) >= 1 /\ Len(f.description) >= 1
    /\ \A i \in Invocations :
        /\ IsPrefix(inv[i].trace, StageOrder)
        /\ Ran(i, "captions") => HasVideoId(i)
        /\ Ran(i, "generate") =>
               HasVideoId(i) /\ HasTranscript(i) /\ Len(inv[i].sent) >= 1
        /\ Ran(i, "save") => HasVideoId(i) /\ HasTranscript(i) /\ HasMetadata(i)
        /\ inv[i].pc = "returned" =>
            /\ ~HasVideoId(i) => inv[i].trace = SubSeq(StageOrder, 1, 1)
            /\ (HasVideoId(i) /\ ~HasTranscript(i)) => inv[i].trace = SubSeq(StageOrder, 1, 2)
            /\ (HasVideoId(i) /\ HasTranscript(i) /\ ~HasMetadata(i)) =>
                   inv[i].trace = SubSeq(StageOrder, 1, 3)
            /\ (HasVideoId(i) /\ HasTranscript(i) /\ HasMetadata(i)) =>
                   inv[i].trace = StageOrder
            /\ inv[i].result = None <=>
                   ~(HasVideoId(i) /\ HasTranscript(i) /\ HasMetadata(i))
            /\ inv[i].result # None =>
                   /\ inv[i].result.video_id = inv[i].video_id
                   /\ inv[i].result.title = inv[i].metadata.title
                   /\ inv[i].result.description = inv[i].metadata.description

\* One invocation has returned a record, the other None after the captions failed.
C15_Witness ==
    /\ inv[1].pc = "returned" /\ inv[1].result # None /\ inv[1].trace = StageOrder
    /\ inv[2].pc = "returned" /\ inv[2].result = None
    /\ inv[2].trace = <<"video_id", "captions">>

\* C17: the instance fields set at construction are never modified, and under
\* every interleaving of the invocations on the instance the result of each is
\* the one process_video gives, run alone, for its own url and the responses
\* it received.
C17_NoSharedState ==
    /\ self = Constructed
    /\ \A i \in Invocations :
           inv[i].pc = "returned" =>
               inv[i].result =
                   process_video(inv[i].url, inv[i].fetched, inv[i].metadata, inv[i].save_ok)

\* Two invocations for one video have returned records with different
\* titles; the file of the video holds the title of the first invocation, which
\* saved last.
C17_Witness ==
    /\ inv[1].pc = "returned" /\ inv[2].pc = "returned"
    /\ inv[1].result # None /\ inv[2].result # None
    /\ inv[1].result.video_id = inv[2].result.video_id
    /\ inv[1].result.title # inv[2].result.title
    /\ files = {SavedFile(inv[1].video_id, inv[1].metadata)}


----------------------------------------------------------------------------
(* process_csv_batch                                                       *)

\* time.sleep(2)
BatchPause == 2

\* Bound: the CSV file has up to this many rows.
MaxRows == 3

\* The url cells of the rows: empty, blank, a url without ID, a url with ID
\* (also with blanks around it).
UrlCells ==
    { <<>>, <<" ", " ">>, <<"i", "n", "v", "a", "l", "i", "d", "_", "u", "r", "l">>, SHORT_URL \o <<"d", "Q", "w", "4", "w", "9", "W", "g", "X", "c", "Q">>,
      <<" ">> \o SHORT_URL \o <<"d", "Q", "w", "4", "w", "9", "W", "g", "X", "c", "Q">> \o <<" ">> }

\* The call generator.process_video(url) of row r, with its result.
Processed(r, u, result) ==
    [op |-> "process_video", row |-> r, url |-> u, result |-> result, seconds |-> 0]

\* The time.sleep(n) at the end of the iteration of row r.
Paused(r, n) ==
    [op |-> "sleep", row |-> r, url |-> <<>>, result |-> None, seconds |-> n]

InitBatch ==
    /\ gpc = "off" /\ max_retries = 0 /\ attempt = 0 /\ events = <<>> /\ gresult = None
    /\ ppc = "off" /\ doc = <<>> /\ content = <<>> /\ parsed = None /\ reparsed = None
    /\ IdleVtt /\ IdleUrl /\ IdleVideo
    /\ bpc = "loop"
    /\ rows \in UNION {[1..n -> UrlCells] : n \in 0..MaxRows}
    /\ row = 1
    /\ blog = <<>>

\* An iteration for a row whose stripped url is empty: `continue`.
SkipRow ==
    /\ bpc = "loop" /\ row <= Len(rows)
    /\ Strip(rows[row]) = <<>>
    /\ row' = row + 1
    /\ UNCHANGED <<bpc, rows, blog, videovars, gvars, pvars, vttvars, urlvars>>

\* Variant of ProcessRow: a failed video ends the batch.
ProcessRow_StopsOnFailure(fetched, generated, save_ok) ==
    /\ bpc = "loop" /\ row <= Len(rows)
    /\ Strip(rows[row]) # <<>>
    /\ LET u == Strip(rows[row])
           result == process_video(u, fetched, generated, save_ok)
       IN  /\ blog' = blog \o <<Processed(row, u, result), Paused(row, BatchPause)>>
           /\ files' = IF result = None THEN files
                       ELSE Written(files, result.video_id, generated, save_ok)
           /\ bpc' = IF result = None THEN "done" ELSE bpc
    /\ row' = row + 1
    /\ UNCHANGED <<rows, self, inv, gvars, pvars, vttvars, urlvars>>

\* An iteration for a row with a url: process_video(url), then time.sleep(2).
ProcessRow(fetched, generated, save_ok) ==
    /\ bpc = "loop" /\ row <= Len(rows)
    /\ Strip(rows[row]) # <<>>
    /\ LET u == Strip(rows[row])
           result == process_video(u, fetched, generated, save_ok)
       IN  /\ blog' = blog \o <<Processed(row, u, result), Paused(row, BatchPause)>>
           /\ files' = IF result = None THEN files
                       ELSE Written(files, result.video_id, generated, save_ok)
    /\ row' = row + 1
    /\ UNCHANGED <<bpc, rows, self, inv, gvars, pvars, vttvars, urlvars>>

\* The reader is exhausted: the function returns.
BatchEnd ==
    /\ bpc = "loop" /\ row > Len(rows)
    /\ bpc' = "done"
    /\ UNCHANGED <<rows, row, blog, videovars, gvars, pvars, vttvars, urlvars>>

NextBatch ==
    \/ SkipRow
    \/ \E fetched \in CaptionDownloads, generated \in GenOutcomes, save_ok \in BOOLEAN :
           ProcessRow(fetched, generated, save_ok)
    \/ BatchEnd

SpecBatch == InitBatch /\ [][NextBatch]_vars

----------------------------------------------------------------------------
(* Claims about process_csv_batch                                          *)

\* The rows of rs with a url, as <<row index, stripped url>>, in file order.
RECURSIVE RowsWithUrl(_, _)
RowsWithUrl(rs, i) ==
    IF i > Len(rs) THEN <<>>
    ELSE (IF Strip(rs[i]) # <<>> THEN << <<i, Strip(rs[i])>> >> ELSE <<>>)
         \o RowsWithUrl(rs, i + 1)

----------------------------------------------------------------------------
(* Claims about the labeled-line format and the fallback                   *)

\* The document is 'TITLE: X' / 'DESCRIPTION: Y' / a third non-empty line
\* (labels in upper or mixed case, X not empty once stripped).
IsLabeledTriple ==
    /\ Len(doc) = 3
    /\ doc[1].label \in {TITLE_LABEL, Title_mixed} /\ TitleText(TextOf(doc[1])) # <<>>
    /\ doc[2].label \in {DESCRIPTION_LABEL, Description_mixed}

\* The pieces the description is made of when every non-empty line after the
\* 'DESCRIPTION:' line is captured whole: the text after the label, then the
\* third line.
CapturedPieces ==
    (IF Trim(TextOf(doc[2]), Blanks) # <<>> THEN <<Trim(TextOf(doc[2]), Blanks)>> ELSE <<>>)
        \o <<Trim(RenderLine(doc[3]), Blanks)>>

\* C21 as stated: once a line beginning with 'DESCRIPTION:' has been seen,
\* every later non-empty line, also one that begins with 'TITLE:' or
\* 'DESCRIPTION:', is appended to the description, and the description is the
\* single-space join of the captured pieces.
C21_EveryLaterLineCaptured ==
    (ppc = "parsed" /\ IsLabeledTriple) =>
        /\ parsed # None
        /\ parsed.description = Join(CapturedPieces, SP)


\* What rules 1-3 found in the completion text, before the fallback.
FoundByRules ==
    LET found == SelectPattern(Strip(content), Split(Strip(content), NL))
    IN  [title |-> LimitTitle(CleanTitle(found.title)),
         description |-> Strip(Join(found.description_lines, SP))]

\* The first sentence of the completion text.
FirstSentence ==
    Trim(Split(Replace(Strip(content), "\n", " "), SENTENCE_SEP)[1], Blanks)

\* C22 as stated: the fallback only fills what is missing. A title found by
\* rules 1-3 is kept; a non-empty description found by rules 1-3 is never
\* overwritten or emptied; a missing title is filled by the first sentence
\* when that has at most 53 characters.
C22_FallbackOnlyFillsMissing ==
    ppc = "parsed" =>
        /\ (parsed # None /\ FoundByRules.title # <<>>) =>
               parsed.title = FoundByRules.title
        /\ (parsed # None /\ FoundByRules.description # <<>>) =>
               parsed.description = FoundByRules.description
        /\ (/\ FoundByRules.description # <<>> /\ FoundByRules.title = <<>>
            /\ FirstSentence # <<>> /\ Len(FirstSentence) <= 53) =>
               /\ parsed # None
               /\ parsed.title = FirstSentence
               /\ parsed.description = FoundByRules.description


(* Claims about the post-processing of the title *)
QuoteOrEmphasis == {DQ, SQ, STAR}

\* C23 as stated: whenever the parser returns a record, whichever rule or
\* fallback produced the title, the returned title neither begins nor ends
\* with a quote character (" or ') or an emphasis character (*).
C23_TitleHasNoSurroundingMarks ==
    (ppc = "parsed" /\ parsed # None) =>
        /\ Head(parsed.title) \notin QuoteOrEmphasis
        /\ parsed.title[Len(parsed.title)] \notin QuoteOrEmphasis


(* Claim about a response of one short line *)
IsOneShortLine ==
    /\ content # NoContent
    /\ ~Contains(Strip(content), NL)
    /\ Len(Strip(content)) <= TitleLimit
    /\ ~Contains(Upper(Strip(content)), TITLE_LABEL)
    /\ Trim(Strip(content), QuoteOrEmphasis \cup Blanks) # <<>>

\* C26 as stated: for a response of a single line of at most 53 characters
\* that has no 'TITLE:' marker in any letter case and is not empty once its
\* surrounding quotes and asterisks are removed, the parser returns a record
\* whose description is the whole stripped response and whose title is that
\* line with its surrounding quotes and asterisks removed.
C26_OneShortLineIsTitleAndDescription ==
    (ppc = "parsed" /\ IsOneShortLine) =>
        /\ parsed # None
        /\ parsed.description = Strip(content)
        /\ parsed.title = Trim(Strip(content), QuoteOrEmphasis \cup Blanks)


(* Claim about the time slept by generate_metadata_with_backoff *)
RECURSIVE SecondsOf(_, _)
\* Sum of the seconds of the events at positions i and later.
SecondsOf(log, i) ==
    IF i > Len(log) THEN 0 ELSE log[i].seconds + SecondsOf(log, i + 1)
TotalSlept == SecondsOf(events, 1)
SleepBound == 2 ^ max_retries - 2

\* Every sleep so far is followed by a call, made or about to be made.
EverySleepRetried ==
    \A i \in DOMAIN events :
        events[i].op = "sleep" =>
            IF i < Len(events) THEN events[i + 1].op = "call"
            ELSE gpc = "loop" /\ attempt < max_retries
\* Attempt number a was made and was rate-limited.
RateLimitedAttempt(a) ==
    \E i \in CallPositions : CallIndex(i) = a /\ IsRateLimitedCall(i)

\* C25 as stated: with max_retries = n >= 1 every sleep is followed by another
\* call, the total time slept is at most 2^n - 2 seconds, and the call ends
\* with that total exactly when every one of its n attempts was rate-limited.
C25_Original ==
    max_retries >= 1 =>
        /\ EverySleepRetried
        /\ TotalSlept <= SleepBound
        /\ gpc = "returned" =>
              (TotalSlept = SleepBound <=> \A a \in 0..(max_retries - 1) : RateLimitedAttempt(a))

\* C25, amended: with max_retries = n >= 1 every sleep is followed by another
\* call, the total time slept is at most 2^n - 2 seconds (6 for n = 3), and
\* the call ends with that total exactly when each of the attempts before the
\* last one (attempts 0 .. n-2) was made and was rate-limited, whatever the
\* outcome of the last attempt; the last attempt is never followed by a sleep.
C25_SleepBound ==
    max_retries >= 1 =>
        /\ EverySleepRetried
        /\ TotalSlept <= SleepBound
        /\ (max_retries = 3 => TotalSlept <= 6)
        /\ gpc = "returned" =>
              (TotalSlept = SleepBound <=> \A a \in 0..(max_retries - 2) : RateLimitedAttempt(a))

\* The bound of 6 seconds is reached by a call whose last attempt succeeds.
C25_Witness ==
    /\ gpc = "returned" /\ max_retries = 3 /\ gresult # None
    /\ TotalSlept = 6 /\ NumCalls = 3
    /\ RateLimitedAttempt(0) /\ RateLimitedAttempt(1)


(* Claim about the transcript embedded in the generation request *)
\* C24: the transcript process_video gives to the generation is the
\* normalized transcript unchanged when it has at most 8000 characters
\* (exactly 8000 included), otherwise its first 8000 characters followed by
\* '...'; it never has more than 8000 + 3 characters.
C24_EmbeddedTranscript ==
    \A i \in Invocations :
        Ran(i, "generate") =>
            /\ Len(inv[i].transcript) <= 8000 => inv[i].sent = inv[i].transcript
            /\ Len(inv[i].transcript) > 8000 =>
                  inv[i].sent = SubSeq(inv[i].transcript, 1, 8000) \o <<".", ".", ".">>
            /\ Len(inv[i].sent) <= 8000 + 3

\* A transcript of 8001 characters was given to the generation as 8003.
C24_Witness ==
    \E i \in Invocations :
        /\ Ran(i, "generate")
        /\ Len(inv[i].transcript) = 8001
        /\ Len(inv[i].sent) = 8003
        /\ inv[i].sent[8000] = inv[i].transcript[8000]

=============================================================================
